---- MODULE Spec2Model ----
(***************************************************************************)
(* Model of the Curumim Telegram intake bot (src/main.py): the in-memory   *)
(* session map user_states and the handlers start_command and              *)
(* message_handler with the task-queue step request_next_audio_task.       *)
(*                                                                         *)
(* Conventions                                                             *)
(*  - A Python str is a sequence of characters (one-character strings).    *)
(*    Telegram delivers text = None for a message without text and never   *)
(*    an empty text; every use of user_text in the code tests its          *)
(*    truthiness first, so None is the empty sequence.  The same holds for *)
(*    the URL returned by upload_audio_to_r2 (None or a non-empty str).    *)
(*  - A dict is a function whose DOMAIN is its key set.                    *)
(*  - The stage f"awaiting_audio_{task}" is the pair                       *)
(*    <<"awaiting_audio_", task>>; every other stage is a 1-tuple.         *)
(*  - python-telegram-bot's Application (main, concurrent_updates off)     *)
(*    runs one handler to completion before it takes the next update, so   *)
(*    one handler run is one action; SpecSteps shows the run as two steps, *)
(*    its begin and its return.                                            *)
(***************************************************************************)
EXTENDS Naturals, Sequences, FiniteSets, TLC

VARIABLES
    s3_client,     \* TRUE: boto3 client built at start-up, FALSE: None (l.31-46)
    user_states,   \* chat_id -> [stage, metadata, tasks_queue] (l.51)
    replies,       \* reply_text calls of the handler run that ended last
    last,          \* the update handled last and the outcomes it met
    pre,           \* user_states before the update handled last
    dequeued,      \* chat_id -> task popped last from its queue (log, l.271)
    streak,        \* chat_id -> consecutive saved recordings since vogal_a
    running        \* the updates whose handler has begun and not yet returned

vars == <<s3_client, user_states, replies, last, pre, dequeued, streak, running>>

----------------------------------------------------------------------------
(* Bounds and input sets *)

ChatIds == {7}

\* largest number whose decimal text is drawn in SpecAge
MaxNumber == 125

None == <<>>

----------------------------------------------------------------------------
(* str operations, computed character by character *)

UpperChars ==
    <<"A", "B", "C", "D", "E", "F", "G", "H", "I", "J", "K", "L", "M", "N",
      "O", "P", "Q", "R", "S", "T", "U", "V", "W", "X", "Y", "Z", "Ã">>

LowerChars ==
    <<"a", "b", "c", "d", "e", "f", "g", "h", "i", "j", "k", "l", "m", "n",
      "o", "p", "q", "r", "s", "t", "u", "v", "w", "x", "y", "z", "ã">>

lower_char(c) ==
    IF \E i \in 1..Len(UpperChars) : UpperChars[i] = c
    THEN LowerChars[CHOOSE i \in 1..Len(UpperChars) : UpperChars[i] = c]
    ELSE c

\* str.lower()
lower(s) == [i \in 1..Len(s) |-> lower_char(s[i])]

Whitespace == {" "}

RECURSIVE lstrip(_)
lstrip(s) == IF s # <<>> /\ Head(s) \in Whitespace THEN lstrip(Tail(s)) ELSE s

RECURSIVE rstrip(_)
rstrip(s) ==
    IF s # <<>> /\ s[Len(s)] \in Whitespace THEN rstrip(SubSeq(s, 1, Len(s) - 1)) ELSE s

\* str.strip()
strip(s) == rstrip(lstrip(s))

DecimalValue ==
    [c \in {"0", "1", "2", "3", "4", "5", "6", "7", "8", "9"} |->
        CASE c = "0" -> 0 [] c = "1" -> 1 [] c = "2" -> 2 [] c = "3" -> 3
          [] c = "4" -> 4 [] c = "5" -> 5 [] c = "6" -> 6 [] c = "7" -> 7
          [] c = "8" -> 8 [] c = "9" -> 9]

\* characters with Numeric_Type=Digit that are not decimal digits
OtherDigits == {"²"}

\* str.isdigit(): non-empty and every character is a digit
isdigit(s) == s # <<>> /\ \A i \in 1..Len(s) : s[i] \in DOMAIN DecimalValue \cup OtherDigits

\* int(s) raises ValueError unless s is a decimal literal
int_raises(s) == s = <<>> \/ \E i \in 1..Len(s) : s[i] \notin DOMAIN DecimalValue

RECURSIVE int(_)
int(s) == IF s = <<>> THEN 0 ELSE 10 * int(SubSeq(s, 1, Len(s) - 1)) + DecimalValue[s[Len(s)]]

----------------------------------------------------------------------------
(* dict operations *)

\* d[k] = v
Put(d, k, v) == [x \in DOMAIN d \cup {k} |-> IF x = k THEN v ELSE d[x]]

\* d.get(k, default)
Get(d, k, default) == IF k \in DOMAIN d THEN d[k] ELSE default

EmptyDict == [x \in {} |-> None]

----------------------------------------------------------------------------
(* Stages *)

AUDIO_TASKS == <<"vogal_a", "vogal_i", "vogal_o", "contagem_1_10">>

Stage(name) == <<name>>

AudioStage(task) == <<"awaiting_audio_", task>>

\* current_stage.startswith("awaiting_audio_")
IsAudioStage(stage) == stage[1] = "awaiting_audio_"

----------------------------------------------------------------------------
(* Storage *)

\* f"curumim_audios/{chat_id}/{name or 'anon'}_{task_type}_{uuid}.{ext}" (the
\* random uuid suffix is left out: nothing reads it)
r2_key(chat_id, metadata, task_type) ==
    <<"curumim_audios", chat_id, Get(metadata, "name", <<"a", "n", "o", "n">>), task_type, "ogg">>

\* The public URL of the uploaded object, or None: without a client, or when
\* upload_file raises (upload_ok = FALSE).
upload_audio_to_r2(client, upload_ok, bucket_key) ==
    IF ~client THEN None
    ELSE IF upload_ok THEN <<"r2.dev", "bucket">> \o bucket_key
    ELSE None

----------------------------------------------------------------------------
(* Handlers.  A handler or a branch of one yields                          *)
(*   user_states : the session map as its run leaves it so far,            *)
(*   user_state  : the handler's local session dict,                       *)
(*   replies     : its reply_text calls, in order,                         *)
(*   popped      : <<task>> when it popped a task, else <<>>,              *)
(*   raised      : TRUE when it ended by an uncaught exception.            *)

Run(us, user_state, out) ==
    [user_states |-> us, user_state |-> user_state, replies |-> out,
     popped |-> <<>>, raised |-> FALSE]

SenderName(chat_id) == <<"R", "e", "n", "a", "n">>

\* start_command as it would be if it reset stage and metadata only
start_command_keeps_queue(us, chat_id) ==
    LET fresh == [stage |-> Stage("awaiting_consent"),
                  metadata |-> [user_id |-> chat_id,
                                telegram_username |-> SenderName(chat_id)],
                  tasks_queue |-> IF chat_id \in DOMAIN us
                                  THEN us[chat_id].tasks_queue ELSE <<>>]
    IN Run(Put(us, chat_id, fresh), fresh, <<"welcome">>)

\* start_command as it would be if it updated the metadata it finds
start_command_keeps_metadata(us, chat_id) ==
    LET old == IF chat_id \in DOMAIN us THEN us[chat_id].metadata ELSE EmptyDict
        fresh == [stage |-> Stage("awaiting_consent"),
                  metadata |-> Put(Put(old, "user_id", chat_id),
                                   "telegram_username", SenderName(chat_id)),
                  tasks_queue |-> <<>>]
    IN Run(Put(us, chat_id, fresh), fresh, <<"welcome">>)

start_command(us, chat_id) ==
    LET fresh == [stage |-> Stage("awaiting_consent"),
                  metadata |-> [user_id |-> chat_id,
                                telegram_username |-> SenderName(chat_id)],
                  tasks_queue |-> <<>>]
    IN Run(Put(us, chat_id, fresh), fresh, <<"welcome">>)

TaskPrompt(next_task) ==
    CASE next_task = "vogal_a" -> <<"prompt_vogal_a">>
      [] next_task = "vogal_i" -> <<"prompt_vogal_i">>
      [] next_task = "vogal_o" -> <<"prompt_vogal_o">>
      [] next_task = "contagem_1_10" -> <<"prompt_contagem_1_10">>
      [] OTHER -> <<>>

\* request_next_audio_task as it would be with another name for the last stage
request_next_audio_task_done(us, user_state, out) ==
    IF user_state.tasks_queue # <<>>
    THEN LET next_task == Head(user_state.tasks_queue)
             st == [stage |-> AudioStage(next_task),
                    metadata |-> Put(user_state.metadata, "current_audio_task", next_task),
                    tasks_queue |-> Tail(user_state.tasks_queue)]
         IN [Run(us, st, out \o TaskPrompt(next_task)) EXCEPT !.popped = <<next_task>>]
    ELSE Run(us, [user_state EXCEPT !.stage = Stage("done")],
             out \o <<"all_collected", "summary">>)

\* request_next_audio_task as it would be with pop() for pop(0)
request_next_audio_task_pop_last(us, user_state, out) ==
    IF user_state.tasks_queue # <<>>
    THEN LET q == user_state.tasks_queue
             next_task == q[Len(q)]
             st == [stage |-> AudioStage(next_task),
                    metadata |-> Put(user_state.metadata, "current_audio_task", next_task),
                    tasks_queue |-> SubSeq(q, 1, Len(q) - 1)]
         IN [Run(us, st, out \o TaskPrompt(next_task)) EXCEPT !.popped = <<next_task>>]
    ELSE Run(us, [user_state EXCEPT !.stage = Stage("finished")],
             out \o <<"all_collected", "summary">>)

\* request_next_audio_task as it would be with
\* metadata.setdefault("current_audio_task", next_task)
request_next_audio_task_setdefault(us, user_state, out) ==
    IF user_state.tasks_queue # <<>>
    THEN LET next_task == Head(user_state.tasks_queue)
             st == [stage |-> AudioStage(next_task),
                    metadata |->
                        IF "current_audio_task" \in DOMAIN user_state.metadata
                        THEN user_state.metadata
                        ELSE Put(user_state.metadata, "current_audio_task", next_task),
                    tasks_queue |-> Tail(user_state.tasks_queue)]
         IN [Run(us, st, out \o TaskPrompt(next_task)) EXCEPT !.popped = <<next_task>>]
    ELSE Run(us, [user_state EXCEPT !.stage = Stage("finished")],
             out \o <<"all_collected", "summary">>)

request_next_audio_task(us, user_state, out) ==
    IF user_state.tasks_queue # <<>>
    THEN LET next_task == Head(user_state.tasks_queue)
             st == [stage |-> AudioStage(next_task),
                    metadata |-> Put(user_state.metadata, "current_audio_task", next_task),
                    tasks_queue |-> Tail(user_state.tasks_queue)]
         IN [Run(us, st, out \o TaskPrompt(next_task)) EXCEPT !.popped = <<next_task>>]
    ELSE Run(us, [user_state EXCEPT !.stage = Stage("finished")],
             out \o <<"all_collected", "summary">>)

\* awaiting_consent as it would be without lower()
awaiting_consent_case_sensitive(us, user_state, user_text) ==
    IF user_text # None /\ user_text \in {<<"s", "i", "m">>, <<"s">>}
    THEN Run(us, [user_state EXCEPT !.stage = Stage("awaiting_name")], <<"ask_name">>)
    ELSE IF user_text # None
            /\ user_text \in {<<"n", "ã", "o">>, <<"n">>, <<"n", "a", "o">>}
    THEN Run(us, [user_state EXCEPT !.stage = Stage("finished")], <<"consent_declined">>)
    ELSE Run(us, user_state, <<"reject_consent">>)

awaiting_consent(us, user_state, user_text) ==
    IF user_text # None /\ lower(user_text) \in {<<"s", "i", "m">>, <<"s">>}
    THEN Run(us, [user_state EXCEPT !.stage = Stage("awaiting_name")], <<"ask_name">>)
    ELSE IF user_text # None
            /\ lower(user_text) \in {<<"n", "ã", "o">>, <<"n">>, <<"n", "a", "o">>}
    THEN Run(us, [user_state EXCEPT !.stage = Stage("finished")], <<"consent_declined">>)
    ELSE Run(us, user_state, <<"reject_consent">>)

\* awaiting_name as it would be if it moved on to the smoking question
awaiting_name_skips_age(us, user_state, user_text) ==
    IF user_text # None
    THEN Run(us, [user_state EXCEPT !.metadata = Put(@, "name", strip(user_text)),
                                    !.stage = Stage("awaiting_smoking_status")],
             <<"ask_smoking">>)
    ELSE Run(us, user_state, <<"reject_name">>)


awaiting_name(us, user_state, user_text) ==
    IF user_text # None
    THEN Run(us, [user_state EXCEPT !.metadata = Put(@, "name", strip(user_text)),
                                    !.stage = Stage("awaiting_age")],
             <<"ask_age">>)
    ELSE Run(us, user_state, <<"reject_name">>)

\* awaiting_age as it would be with 5 < int(user_text)
awaiting_age_above_five(us, user_state, user_text) ==
    IF user_text # None /\ isdigit(user_text) /\ int_raises(user_text)
    THEN [Run(us, user_state, <<>>) EXCEPT !.raised = TRUE]
    ELSE IF user_text # None /\ isdigit(user_text)
            /\ 5 < int(user_text) /\ int(user_text) <= 120
    THEN Run(us, [user_state EXCEPT !.metadata = Put(@, "age", int(user_text)),
                                    !.stage = Stage("awaiting_smoking_status")],
             <<"ask_smoking_status">>)
    ELSE Run(us, user_state, <<"reject_age">>)

awaiting_age(us, user_state, user_text) ==
    IF user_text # None /\ isdigit(user_text) /\ int_raises(user_text)
    THEN [Run(us, user_state, <<>>) EXCEPT !.raised = TRUE]
    ELSE IF user_text # None /\ isdigit(user_text)
            /\ 5 <= int(user_text) /\ int(user_text) <= 120
    THEN Run(us, [user_state EXCEPT !.metadata = Put(@, "age", int(user_text)),
                                    !.stage = Stage("awaiting_smoking_status")],
             <<"ask_smoking_status">>)
    ELSE Run(us, user_state, <<"reject_age">>)

SmokingLabels ==
    {<<"f", "u", "m", "a", "n", "t", "e">>,
     <<"e", "x", "-", "f", "u", "m", "a", "n", "t", "e">>,
     <<"n", "ã", "o", " ", "f", "u", "m", "a", "n", "t", "e">>,
     <<"n", "a", "o", " ", "f", "u", "m", "a", "n", "t", "e">>}

\* awaiting_smoking_status as it would be if it stored the answer and asked
\* the next question without setting the stage
awaiting_smoking_status_same_stage(us, user_state, user_text) ==
    IF user_text # None /\ lower(user_text) \in SmokingLabels
    THEN Run(us, [user_state EXCEPT
                    !.metadata = Put(@, "smoking_status", lower(strip(user_text)))],
             <<"ask_diagnosis">>)
    ELSE Run(us, user_state, <<"reject_smoking_status">>)


awaiting_smoking_status(us, user_state, user_text) ==
    IF user_text # None /\ lower(user_text) \in SmokingLabels
    THEN Run(us, [user_state EXCEPT
                    !.metadata = Put(@, "smoking_status", lower(strip(user_text))),
                    !.stage = Stage("awaiting_diagnosis")],
             <<"ask_diagnosis">>)
    ELSE Run(us, user_state, <<"reject_smoking_status">>)

awaiting_diagnosis(us, user_state, user_text) ==
    IF user_text # None
    THEN Run(us, [user_state EXCEPT !.metadata = Put(@, "diagnosis", strip(user_text)),
                                    !.stage = Stage("awaiting_emotional_state")],
             <<"ask_emotional_state">>)
    ELSE Run(us, user_state, <<"reject_diagnosis">>)

awaiting_emotional_state(us, user_state, user_text) ==
    IF user_text # None /\ isdigit(user_text) /\ int_raises(user_text)
    THEN [Run(us, user_state, <<>>) EXCEPT !.raised = TRUE]
    ELSE IF user_text # None /\ isdigit(user_text)
            /\ 1 <= int(user_text) /\ int(user_text) <= 5
    THEN Run(us, [user_state EXCEPT
                    !.metadata = Put(@, "emotional_state", int(user_text)),
                    !.stage = Stage("awaiting_environment")],
             <<"ask_environment">>)
    ELSE Run(us, user_state, <<"reject_emotional_state">>)

awaiting_environment(us, user_state, user_text) ==
    IF user_text # None
    THEN request_next_audio_task(
            us,
            [user_state EXCEPT !.metadata = Put(@, "environment", strip(user_text)),
                               !.tasks_queue = AUDIO_TASKS],
            <<"start_audio">>)
    ELSE Run(us, user_state, <<"reject_environment">>)

\* awaiting_audio as it would be if it made a new audio_urls dict each time
awaiting_audio_fresh_urls(us, chat_id, user_state, user_audio, fetch_ok, upload_ok, client) ==
    IF user_audio
    THEN LET task_type == user_state.metadata["current_audio_task"]
         IN IF ~fetch_ok
            THEN \* get_file or download_to_drive raised: the except of l.235
                 Run(us, user_state, <<"audio_problem">>)
            ELSE LET public_audio_url ==
                         upload_audio_to_r2(client, upload_ok,
                                            r2_key(chat_id, user_state.metadata, task_type))
                     audio_urls == EmptyDict
                     saved ==
                         IF public_audio_url # None
                         THEN [user_state EXCEPT !.metadata =
                                 Put(@, "audio_urls",
                                     Put(audio_urls, task_type, public_audio_url))]
                         ELSE user_state
                     out == IF public_audio_url # None
                            THEN <<"audio_saved">> ELSE <<"r2_problem">>
                 IN request_next_audio_task(us, saved, out)
    ELSE Run(us, user_state, <<"reject_no_audio">>)

\* awaiting_audio as it would be if the recording were filed under the task at
\* the head of the queue
awaiting_audio_key_from_queue(us, chat_id, user_state, user_audio, fetch_ok, upload_ok, client) ==
    IF user_audio
    THEN LET task_type == IF user_state.tasks_queue # <<>>
                          THEN Head(user_state.tasks_queue)
                          ELSE user_state.metadata["current_audio_task"]
         IN IF ~fetch_ok
            THEN Run(us, user_state, <<"audio_problem">>)
            ELSE LET public_audio_url ==
                         upload_audio_to_r2(client, upload_ok,
                                            r2_key(chat_id, user_state.metadata, task_type))
                     audio_urls == Get(user_state.metadata, "audio_urls", EmptyDict)
                     saved ==
                         IF public_audio_url # None
                         THEN [user_state EXCEPT !.metadata =
                                 Put(@, "audio_urls",
                                     Put(audio_urls, task_type, public_audio_url))]
                         ELSE user_state
                     out == IF public_audio_url # None
                            THEN <<"audio_saved">> ELSE <<"r2_problem">>
                 IN request_next_audio_task(us, saved, out)
    ELSE Run(us, user_state, <<"reject_no_audio">>)


\* awaiting_audio as it would be if the next task were requested in a finally
awaiting_audio_next_on_error(us, chat_id, user_state, user_audio, fetch_ok, upload_ok, client) ==
    IF user_audio
    THEN LET task_type == user_state.metadata["current_audio_task"]
         IN IF ~fetch_ok
            THEN \* get_file or download_to_drive raised: the except of l.235
                 request_next_audio_task(us, user_state, <<"audio_problem">>)
            ELSE LET public_audio_url ==
                         upload_audio_to_r2(client, upload_ok,
                                            r2_key(chat_id, user_state.metadata, task_type))
                     audio_urls == Get(user_state.metadata, "audio_urls", EmptyDict)
                     saved ==
                         IF public_audio_url # None
                         THEN [user_state EXCEPT !.metadata =
                                 Put(@, "audio_urls",
                                     Put(audio_urls, task_type, public_audio_url))]
                         ELSE user_state
                     out == IF public_audio_url # None
                            THEN <<"audio_saved">> ELSE <<"r2_problem">>
                 IN request_next_audio_task(us, saved, out)
    ELSE Run(us, user_state, <<"reject_no_audio">>)

awaiting_audio(us, chat_id, user_state, user_audio, fetch_ok, upload_ok, client) ==
    IF user_audio
    THEN LET task_type == user_state.metadata["current_audio_task"]
         IN IF ~fetch_ok
            THEN \* get_file or download_to_drive raised: the except of l.235
                 Run(us, user_state, <<"audio_problem">>)
            ELSE LET public_audio_url ==
                         upload_audio_to_r2(client, upload_ok,
                                            r2_key(chat_id, user_state.metadata, task_type))
                     audio_urls == Get(user_state.metadata, "audio_urls", EmptyDict)
                     saved ==
                         IF public_audio_url # None
                         THEN [user_state EXCEPT !.metadata =
                                 Put(@, "audio_urls",
                                     Put(audio_urls, task_type, public_audio_url))]
                         ELSE user_state
                     out == IF public_audio_url # None
                            THEN <<"audio_saved">> ELSE <<"r2_problem">>
                 IN request_next_audio_task(us, saved, out)
    ELSE Run(us, user_state, <<"reject_no_audio">>)

finished(us, chat_id, user_state, user_text) ==
    IF user_text # None
       /\ lower(user_text) = <<"r", "e", "i", "n", "i", "c", "i", "a", "r">>
    THEN LET s == start_command(us, chat_id)
         IN Run(s.user_states, user_state, s.replies)
    ELSE Run(us, user_state, <<"already_complete">>)

\* message_handler from l.111 on: the session exists
stage_logic(us, chat_id, user_text, user_audio, fetch_ok, upload_ok, client) ==
         LET user_state == us[chat_id]
             current_stage == user_state.stage
             h == CASE current_stage = Stage("awaiting_consent") ->
                         awaiting_consent(us, user_state, user_text)
                    [] current_stage = Stage("awaiting_name") ->
                         awaiting_name(us, user_state, user_text)
                    [] current_stage = Stage("awaiting_age") ->
                         awaiting_age(us, user_state, user_text)
                    [] current_stage = Stage("awaiting_smoking_status") ->
                         awaiting_smoking_status(us, user_state, user_text)
                    [] current_stage = Stage("awaiting_diagnosis") ->
                         awaiting_diagnosis(us, user_state, user_text)
                    [] current_stage = Stage("awaiting_emotional_state") ->
                         awaiting_emotional_state(us, user_state, user_text)
                    [] current_stage = Stage("awaiting_environment") ->
                         awaiting_environment(us, user_state, user_text)
                    [] IsAudioStage(current_stage) ->
                         awaiting_audio(us, chat_id, user_state, user_audio,
                                        fetch_ok, upload_ok, client)
                    [] current_stage = Stage("finished") ->
                         finished(us, chat_id, user_state, user_text)
                    [] OTHER -> Run(us, user_state, <<>>)
         IN IF h.raised THEN h
            ELSE \* user_states[chat_id] = user_state
                 [h EXCEPT !.user_states = Put(h.user_states, chat_id, h.user_state)]

\* message_handler as it would be without the return of l.109
message_handler_no_return(us, chat_id, user_text, user_audio, fetch_ok, upload_ok, client) ==
    IF chat_id \notin DOMAIN us
    THEN LET s == start_command(us, chat_id)
             h == stage_logic(s.user_states, chat_id, user_text, user_audio,
                              fetch_ok, upload_ok, client)
         IN [h EXCEPT !.replies = s.replies \o @]
    ELSE stage_logic(us, chat_id, user_text, user_audio, fetch_ok, upload_ok, client)


message_handler(us, chat_id, user_text, user_audio, fetch_ok, upload_ok, client) ==
    IF chat_id \notin DOMAIN us
    THEN \* await start_command(update, context); return
         start_command(us, chat_id)
    ELSE stage_logic(us, chat_id, user_text, user_audio, fetch_ok, upload_ok, client)

\* error_handler as it would be if it only logged
error_handler_log_only(h) == h

\* An exception that leaves a handler reaches the application's error handler.
error_handler(h) ==
    IF h.raised THEN [h EXCEPT !.replies = Append(@, "internal_error")] ELSE h

----------------------------------------------------------------------------
(* Updates *)

Sim == <<"S", "i", "m">>
Nao == <<"N", "Ã", "O">>
Ana == <<" ", "A", "n", "a", " ">>
ExFumante == <<"E", "x", "-", "F", "u", "m", "a", "n", "t", "e">>
Reiniciar == <<"R", "e", "i", "n", "i", "c", "i", "a", "r">>

\* texts the user sends in Spec
Texts == {Sim, Nao, Ana, <<"1", "7">>, <<"4">>, ExFumante, Reiniciar, <<"²">>}

DigitChars == <<"0", "1", "2", "3", "4", "5", "6", "7", "8", "9">>

\* the decimal text of n, as the user types it
RECURSIVE DecimalText(_)
DecimalText(n) ==
    IF n < 10 THEN <<DigitChars[n + 1]>>
    ELSE Append(DecimalText(n \div 10), DigitChars[(n % 10) + 1])

\* texts the user sends in SpecAge: every number up to MaxNumber, and texts
\* that are no decimal literal, have a leading zero or are out of range
AgeTexts ==
    {DecimalText(n) : n \in 0..MaxNumber}
    \cup {<<"2", "0", "0">>, <<"0", "1", "7">>, <<"²">>, <<"1", "²">>,
          <<" ", "1", "7">>, <<"a", "7">>, <<"-", "7">>, Ana}

Effects(h, ev, fresh) ==
    LET c == ev.chat_id
        saved_recording ==
            /\ ev.op = "message" /\ ev.voice /\ ev.fetch_ok
            /\ c \in DOMAIN user_states
            /\ IsAudioStage(user_states[c].stage)
            /\ upload_audio_to_r2(s3_client, ev.upload_ok, <<"key">>) # None
    IN /\ user_states' = h.user_states
       /\ replies' = h.replies
       /\ last' = [ev EXCEPT !.raised = h.raised]
       /\ pre' = user_states
       /\ dequeued' = [dequeued EXCEPT ![c] =
                          IF fresh THEN <<>> ELSE IF h.popped # <<>> THEN h.popped ELSE @]
       /\ streak' = [streak EXCEPT ![c] =
                        IF ~saved_recording THEN 0
                        ELSE IF user_states[c].stage = AudioStage("vogal_a") THEN 1
                        ELSE IF @ > 0 THEN @ + 1 ELSE 0]
       /\ UNCHANGED s3_client

\* A handler run taken as one step: begun and returned with no update between.
Handled(h, ev, fresh) == Effects(h, ev, fresh) /\ UNCHANGED running

Event(op, c, text, voice, fetch_ok, upload_ok) ==
    [op |-> op, chat_id |-> c, text |-> text, voice |-> voice,
     fetch_ok |-> fetch_ok, upload_ok |-> upload_ok, raised |-> FALSE]

\* CommandHandler("start", start_command)
StartCommand(c) ==
    Handled(start_command(user_states, c),
            Event("start", c, None, FALSE, TRUE, TRUE), TRUE)

Message(c, text, voice, fetch_ok, upload_ok) ==
    Handled(error_handler(message_handler(user_states, c, text, voice,
                                          fetch_ok, upload_ok, s3_client)),
            Event("message", c, text, voice, fetch_ok, upload_ok),
            c \notin DOMAIN user_states)

\* MessageHandler(filters.TEXT & ~filters.COMMAND, message_handler)
TextMessage(c, text) == Message(c, text, FALSE, TRUE, TRUE)

\* MessageHandler(filters.VOICE | filters.ATTACHMENT, ...): a voice message.
\* fetch_ok and upload_ok are the outcomes of the download and of upload_file;
\* an outcome the run never consults is TRUE.
VoiceMessage(c, fetch_ok, upload_ok) ==
    /\ fetch_ok
         \/ (c \in DOMAIN user_states /\ IsAudioStage(user_states[c].stage))
    /\ upload_ok
         \/ (c \in DOMAIN user_states /\ IsAudioStage(user_states[c].stage)
               /\ fetch_ok /\ s3_client)
    /\ Message(c, None, TRUE, fetch_ok, upload_ok)

\* MessageHandler(filters.VOICE | filters.ATTACHMENT, ...): another attachment
OtherMessage(c) == Message(c, None, FALSE, TRUE, TRUE)

Init ==
    /\ s3_client \in BOOLEAN
    /\ user_states = EmptyDict
    /\ replies = <<>>
    /\ last = Event("none", 0, None, FALSE, TRUE, TRUE)
    /\ pre = EmptyDict
    /\ dequeued = [c \in ChatIds |-> <<>>]
    /\ streak = [c \in ChatIds |-> 0]
    /\ running = <<>>

Next ==
    \E c \in ChatIds :
        \/ StartCommand(c)
        \/ \E text \in Texts : TextMessage(c, text)
        \/ \E fetch_ok, upload_ok \in BOOLEAN : VoiceMessage(c, fetch_ok, upload_ok)
        \/ OtherMessage(c)

Spec == Init /\ [][Next]_vars

\* The session of chat 7 after /start, "Sim" and " Ana ": stage awaiting_age.
AfterStart == start_command(EmptyDict, 7).user_states

AfterConsent == message_handler(AfterStart, 7, Sim, FALSE, TRUE, TRUE, TRUE).user_states

AfterName == message_handler(AfterConsent, 7, Ana, FALSE, TRUE, TRUE, TRUE)

InitAge ==
    /\ s3_client \in BOOLEAN
    /\ user_states = AfterName.user_states
    /\ replies = AfterName.replies
    /\ last = Event("message", 7, Ana, FALSE, TRUE, TRUE)
    /\ pre = AfterConsent
    /\ dequeued = [c \in ChatIds |-> <<>>]
    /\ streak = [c \in ChatIds |-> 0]
    /\ running = <<>>

NextAge ==
    \E c \in ChatIds :
        \/ StartCommand(c)
        \/ \E text \in AgeTexts : TextMessage(c, text)
        \/ \E fetch_ok, upload_ok \in BOOLEAN : VoiceMessage(c, fetch_ok, upload_ok)
        \/ OtherMessage(c)

SpecAge == InitAge /\ [][NextAge]_vars

----------------------------------------------------------------------------
(* A handler run as two steps.  main builds the Application with its       *)
(* defaults (no concurrent_updates, blocking handlers): the application    *)
(* awaits the handler of one update, through all its awaits (reply_text,   *)
(* get_file, download_to_drive), before it takes the next update off its   *)
(* queue.  Begin is the call of the handler, Return its end; the writes of *)
(* the run lie between the two and no other handler runs there, so they    *)
(* are applied at Return.                                                  *)

\* texts the user sends in SpecSteps: one that each stage accepts
SmallTexts == {Sim, <<"5">>, ExFumante}

\* the updates Telegram can deliver for chat c
Updates(c, texts) ==
    {Event("start", c, None, FALSE, TRUE, TRUE)}
    \cup {Event("message", c, text, FALSE, TRUE, TRUE) : text \in texts}
    \cup {Event("message", c, None, TRUE, f, u) : f \in BOOLEAN, u \in BOOLEAN}
    \cup {Event("message", c, None, FALSE, TRUE, TRUE)}

\* Begin as it would be with Application.builder().concurrent_updates(True)
Begin_concurrent(ev) ==
    /\ running' = Append(running, [ev |-> ev, seen |-> user_states])
    /\ UNCHANGED <<s3_client, user_states, replies, last, pre, dequeued, streak>>

\* The application takes the next update and calls its handler.
Begin(ev) ==
    /\ running = <<>>
    /\ running' = Append(running, [ev |-> ev, seen |-> user_states])
    /\ UNCHANGED <<s3_client, user_states, replies, last, pre, dequeued, streak>>

\* The handler begun first returns.
Return ==
    /\ running # <<>>
    /\ LET ev == Head(running).ev
           c == ev.chat_id
       IN Effects(IF ev.op = "start"
                  THEN start_command(user_states, c)
                  ELSE error_handler(message_handler(user_states, c, ev.text, ev.voice,
                                                     ev.fetch_ok, ev.upload_ok, s3_client)),
                  ev, ev.op = "start" \/ c \notin DOMAIN user_states)
    /\ running' = Tail(running)

NextSteps ==
    \/ \E c \in ChatIds : \E ev \in Updates(c, SmallTexts) : Begin(ev)
    \/ Return

SpecSteps == Init /\ [][NextSteps]_vars

----------------------------------------------------------------------------
(* Two chats whose handlers interleave.  A handler awaits the network      *)
(* between its statements; were the application to process updates         *)
(* concurrently, a handler of another chat could run at each await.  A     *)
(* handler reads and writes user_states under its own chat_id only, so its *)
(* writes are those of the handler applied to the map as it is when the    *)
(* handler returns; handlers of one chat are taken one after the other.    *)

TwoChats == {7, 8}

Without(s, i) == [j \in 1..(Len(s) - 1) |-> IF j < i THEN s[j] ELSE s[j + 1]]

\* The map after chat c answered the questions up to the recording place:
\* /start, "Sim", " Ana ", "17", "Ex-Fumante", " Ana ", "4".
RECURSIVE Answered(_, _, _)
Answered(us, c, texts) ==
    IF texts = <<>> THEN us
    ELSE Answered(message_handler(us, c, Head(texts), FALSE, TRUE, TRUE, TRUE).user_states,
                  c, Tail(texts))

Interviewed(us, c) ==
    Answered(start_command(us, c).user_states, c,
             <<Sim, Ana, <<"1", "7">>, ExFumante, Ana, <<"4">>>>)

\* the updates delivered for chat c in SpecTwo: /start, a text, a recording
\* that is fetched and uploaded
UpdatesTwo(c) ==
    {Event("start", c, None, FALSE, TRUE, TRUE),
     Event("message", c, Sim, FALSE, TRUE, TRUE),
     Event("message", c, None, TRUE, TRUE, TRUE)}

\* Each chat is unseen or has answered the questions.
InitTwo ==
    /\ s3_client = TRUE
    /\ user_states \in {EmptyDict, Interviewed(EmptyDict, 7), Interviewed(EmptyDict, 8),
                        Interviewed(Interviewed(EmptyDict, 7), 8)}
    /\ replies = <<>>
    /\ last = Event("none", 0, None, FALSE, TRUE, TRUE)
    /\ pre = EmptyDict
    /\ dequeued = [c \in TwoChats |-> <<>>]
    /\ streak = [c \in TwoChats |-> 0]
    /\ running = <<>>

\* A handler is called for a chat no handler is running for.
BeginTwo(ev) ==
    /\ \A i \in 1..Len(running) : running[i].ev.chat_id # ev.chat_id
    /\ running' = Append(running, [ev |-> ev, seen |-> user_states])
    /\ UNCHANGED <<s3_client, user_states, replies, last, pre, dequeued, streak>>

\* ReturnTwo as it would be if the handler put back the map it saw when called
ReturnTwo_from_snapshot(i) ==
    /\ i \in 1..Len(running)
    /\ LET ev == running[i].ev
           c == ev.chat_id
           seen == running[i].seen
       IN Effects(IF ev.op = "start"
                  THEN start_command(seen, c)
                  ELSE error_handler(message_handler(seen, c, ev.text, ev.voice,
                                                     ev.fetch_ok, ev.upload_ok, s3_client)),
                  ev, ev.op = "start" \/ c \notin DOMAIN user_states)
    /\ running' = Without(running, i)

\* Any of the running handlers returns.
ReturnTwo(i) ==
    /\ i \in 1..Len(running)
    /\ LET ev == running[i].ev
           c == ev.chat_id
       IN Effects(IF ev.op = "start"
                  THEN start_command(user_states, c)
                  ELSE error_handler(message_handler(user_states, c, ev.text, ev.voice,
                                                     ev.fetch_ok, ev.upload_ok, s3_client)),
                  ev, ev.op = "start" \/ c \notin DOMAIN user_states)
    /\ running' = Without(running, i)

NextTwo ==
    \/ \E c \in TwoChats : \E ev \in UpdatesTwo(c) : BeginTwo(ev)
    \/ \E i \in 1..Cardinality(TwoChats) : ReturnTwo(i)

SpecTwo == InitTwo /\ [][NextTwo]_vars


----------------------------------------------------------------------------
(* Vocabulary of the properties *)

\* The update handled last was a message for a chat that had a session.
MessageHandled == last.op = "message" /\ last.chat_id \in DOMAIN pre

Before == pre[last.chat_id]

After == user_states[last.chat_id]

AudioUrls(session) == Get(session.metadata, "audio_urls", EmptyDict)

CurrentTask(session) ==
    IF "current_audio_task" \in DOMAIN session.metadata
    THEN <<session.metadata["current_audio_task"]>> ELSE <<>>

CollectedFields ==
    {"name", "age", "smoking_status", "diagnosis", "emotional_state",
     "environment", "audio_urls", "current_audio_task"}

\* The upload of the recording handled last returned no URL.
UploadFailed ==
    /\ MessageHandled /\ IsAudioStage(Before.stage)
    /\ last.voice /\ last.fetch_ok
    /\ ~s3_client \/ ~last.upload_ok

\* C1: a voice message in AWAITING_AUDIO_TASK(t) whose upload fails leaves
\* the stage, the task queue and current_audio_task as they were, adds no
\* audio_urls entry and is answered with the failure reply.
C1_UploadFailureKeepsTask ==
    UploadFailed =>
        /\ After.stage = Before.stage
        /\ After.tasks_queue = Before.tasks_queue
        /\ CurrentTask(After) = CurrentTask(Before)
        /\ AudioUrls(After) = AudioUrls(Before)
        /\ \E i \in 1..Len(replies) : replies[i] = "r2_problem"

\* The reset keyword was handled last, in stage FINISHED.
ResetInFinished ==
    /\ MessageHandled /\ Before.stage = Stage("finished")
    /\ last.text # None
    /\ lower(last.text) = <<"r", "e", "i", "n", "i", "c", "i", "a", "r">>

\* C2: after 'reiniciar' is handled in FINISHED the stored session is in
\* AWAITING_CONSENT with an empty queue and none of the collected fields.
C2_ResetFromFinished ==
    ResetInFinished =>
        /\ After.stage = Stage("awaiting_consent")
        /\ After.tasks_queue = <<>>
        /\ DOMAIN After.metadata \cap CollectedFields = {}

\* numbers the user types in SpecAge, and the integer a text stands for: the
\* text without its leading zeros is the decimal text of the number
RECURSIVE StripZeros(_)
StripZeros(t) == IF Len(t) > 1 /\ Head(t) = "0" THEN StripZeros(Tail(t)) ELSE t

IsInteger(t, n) == t # None /\ StripZeros(t) = DecimalText(n)

IsIntegerIn(t, lo, hi) == \E n \in lo..hi : IsInteger(t, n)

\* What each stage accepts (the transition table of the state machine).
Accepts(stage, text, voice) ==
    CASE stage = Stage("awaiting_consent") ->
            text # None /\ lower(text) \in {<<"s", "i", "m">>, <<"s">>, <<"n", "ã", "o">>,
                                            <<"n", "a", "o">>, <<"n">>}
      [] stage = Stage("awaiting_name") -> text # None
      [] stage = Stage("awaiting_age") -> IsIntegerIn(text, 5, 120)
      [] stage = Stage("awaiting_smoking_status") ->
            text # None /\ lower(text) \in SmokingLabels
      [] stage = Stage("awaiting_diagnosis") -> text # None
      [] stage = Stage("awaiting_emotional_state") -> IsIntegerIn(text, 1, 5)
      [] stage = Stage("awaiting_environment") -> text # None
      [] IsAudioStage(stage) -> voice
      [] stage = Stage("finished") ->
            text # None /\ lower(text) = <<"r", "e", "i", "n", "i", "c", "i", "a", "r">>

\* The corrective reply of each stage.
RejectReply(stage) ==
    CASE stage = Stage("awaiting_consent") -> "reject_consent"
      [] stage = Stage("awaiting_name") -> "reject_name"
      [] stage = Stage("awaiting_age") -> "reject_age"
      [] stage = Stage("awaiting_smoking_status") -> "reject_smoking_status"
      [] stage = Stage("awaiting_diagnosis") -> "reject_diagnosis"
      [] stage = Stage("awaiting_emotional_state") -> "reject_emotional_state"
      [] stage = Stage("awaiting_environment") -> "reject_environment"
      [] IsAudioStage(stage) -> "reject_no_audio"
      [] stage = Stage("finished") -> "already_complete"

\* The message handled last is one its stage does not accept.
Rejected == MessageHandled /\ ~Accepts(Before.stage, last.text, last.voice)

\* C3: a message its stage does not accept leaves stage, metadata and task
\* queue as they were and is answered with the stage's corrective reply.
C3_RejectionIsNoOp ==
    Rejected => After = Before /\ replies = <<RejectReply(Before.stage)>>

\* The frame half of C3 alone: a rejected message changes nothing.
RejectionKeepsSession == Rejected => After = Before /\ replies # <<>>

Stages ==
    {Stage(n) : n \in {"awaiting_consent", "awaiting_name", "awaiting_age",
                       "awaiting_smoking_status", "awaiting_diagnosis",
                       "awaiting_emotional_state", "awaiting_environment",
                       "finished"}}
    \cup {AudioStage(t) : t \in {"vogal_a", "vogal_i", "vogal_o", "contagem_1_10"}}

\* C4: every stored session's stage is one of the fixed stages.
C4_StageIsEnumerated ==
    \A c \in DOMAIN user_states : user_states[c].stage \in Stages

\* a session reached the last audio stage by a handled recording
C4_Witness ==
    /\ MessageHandled /\ last.voice
    /\ After.stage = AudioStage("contagem_1_10")

\* C5: four consecutive recordings saved from AWAITING_AUDIO_TASK(vogal_a)
\* on end in FINISHED with an empty queue and exactly the four audio_urls
\* keys; the k-th of them is stored under the task that was awaited when it
\* arrived, the k-th of the list.
C5_FourRecordings ==
    \A c \in DOMAIN user_states :
        streak[c] >= 1 =>
            LET k == streak[c]
                s == user_states[c]
            IN /\ DOMAIN AudioUrls(s) = {AUDIO_TASKS[i] : i \in 1..k}
               /\ \A t \in DOMAIN AudioUrls(s) :
                      AudioUrls(s)[t] =
                          upload_audio_to_r2(TRUE, TRUE, r2_key(c, s.metadata, t))
               /\ last.chat_id = c =>
                      /\ pre[c].stage = AudioStage(AUDIO_TASKS[k])
                      /\ AUDIO_TASKS[k] \notin DOMAIN AudioUrls(pre[c])
               /\ k = Len(AUDIO_TASKS) =>
                      s.stage = Stage("finished") /\ s.tasks_queue = <<>>

C5_Witness == \E c \in DOMAIN user_states : streak[c] = Len(AUDIO_TASKS)

\* A non-empty text was handled last in AWAITING_ENVIRONMENT, the queue empty.
EnvironmentGiven ==
    /\ MessageHandled /\ Before.stage = Stage("awaiting_environment")
    /\ last.text # None /\ Before.tasks_queue = <<>>

\* C6: a non-empty text in AWAITING_ENVIRONMENT stores the environment and
\* leaves the queue [vogal_i, vogal_o, contagem_1_10], current_audio_task
\* vogal_a and the stage AWAITING_AUDIO_TASK(vogal_a).
C6_EnvironmentStartsQueue ==
    EnvironmentGiven =>
        /\ Get(After.metadata, "environment", None) = strip(last.text)
        /\ After.tasks_queue = <<"vogal_i", "vogal_o", "contagem_1_10">>
        /\ CurrentTask(After) = <<"vogal_a">>
        /\ After.stage = AudioStage("vogal_a")

C6_Witness == EnvironmentGiven /\ last.text = Ana

\* C7: a session's task queue is non-empty only in an audio stage.
C7_QueueOnlyInAudio ==
    \A c \in DOMAIN user_states :
        user_states[c].tasks_queue # <<>> => IsAudioStage(user_states[c].stage)

\* /start handled while tasks were still queued
C7_Witness ==
    /\ last.op = "start" /\ last.chat_id \in DOMAIN pre
    /\ Before.tasks_queue # <<>>
    /\ After.tasks_queue = <<>>

\* C8 as stated: current_audio_task, if present, is the task dequeued last and
\* is not yet fulfilled: the session still awaits it and holds no audio
\* reference for it, in FINISHED too.
C8_CurrentTaskUnfulfilled ==
    \A c \in DOMAIN user_states :
        LET s == user_states[c] IN
        CurrentTask(s) # <<>> =>
            /\ CurrentTask(s) = dequeued[c]
            /\ s.stage = AudioStage(CurrentTask(s)[1])
            /\ CurrentTask(s)[1] \notin DOMAIN AudioUrls(s)

\* C8 amended: current_audio_task, if present, is the task dequeued last; in
\* an audio stage it is the task the stage names and has no audio reference;
\* otherwise the session is FINISHED with an empty queue and the field still
\* names the last task of the list.
C8_CurrentTaskIsLastDequeued ==
    \A c \in DOMAIN user_states :
        LET s == user_states[c] IN
        CurrentTask(s) # <<>> =>
            /\ CurrentTask(s) = dequeued[c]
            /\ IF IsAudioStage(s.stage)
               THEN /\ s.stage = AudioStage(CurrentTask(s)[1])
                    /\ CurrentTask(s)[1] \notin DOMAIN AudioUrls(s)
               ELSE /\ s.stage = Stage("finished")
                    /\ s.tasks_queue = <<>>
                    /\ CurrentTask(s) = <<AUDIO_TASKS[Len(AUDIO_TASKS)]>>

\* FINISHED with the last task still named and its recording stored
C8_Witness ==
    \E c \in DOMAIN user_states :
        /\ user_states[c].stage = Stage("finished")
        /\ CurrentTask(user_states[c]) = <<"contagem_1_10">>
        /\ "contagem_1_10" \in DOMAIN AudioUrls(user_states[c])

\* Fetching the recording handled last from the transport failed.
FetchFailed ==
    /\ MessageHandled /\ IsAudioStage(Before.stage)
    /\ last.voice /\ ~last.fetch_ok

\* C9: a failed fetch is caught, answered with the generic reply, and leaves
\* stage, queue, current_audio_task and audio_urls as they were.
C9_FetchFailureIsNoOp ==
    FetchFailed =>
        /\ ~last.raised
        /\ replies = <<"audio_problem">>
        /\ After.stage = Before.stage
        /\ After.tasks_queue = Before.tasks_queue
        /\ CurrentTask(After) = CurrentTask(Before)
        /\ AudioUrls(After) = AudioUrls(Before)

C9_Witness == FetchFailed /\ Before.stage = AudioStage("vogal_i")

\* A message was handled last in AWAITING_AGE.
AgeAnswered == MessageHandled /\ Before.stage = Stage("awaiting_age")

\* C10: in AWAITING_AGE a text that is an integer n in 5..120 stores age n
\* and moves to AWAITING_SMOKING_STATUS; any other message leaves the
\* stage and writes no age.
C10_AgeRange ==
    AgeAnswered =>
        IF IsIntegerIn(last.text, 5, 120)
        THEN /\ After.stage = Stage("awaiting_smoking_status")
             /\ "age" \in DOMAIN After.metadata
             /\ IsInteger(last.text, After.metadata["age"])
        ELSE /\ After.stage = Stage("awaiting_age")
             /\ "age" \notin DOMAIN After.metadata

\* the upper end of the range was accepted
C10_Witness ==
    /\ AgeAnswered /\ last.text = <<"1", "2", "0">>
    /\ After.stage = Stage("awaiting_smoking_status")

\* A session as start_command stores it: the initial stage, an empty queue
\* and none of the collected fields.
IsInitial(session) ==
    /\ session.stage = Stage("awaiting_consent")
    /\ session.tasks_queue = <<>>
    /\ DOMAIN session.metadata \cap CollectedFields = {}

\* /start was handled last, or the first message of an unseen chat.
SessionCreated ==
    \/ last.op = "start"
    \/ last.op = "message" /\ last.chat_id \notin DOMAIN pre

ConsentAnswered == MessageHandled /\ Before.stage = Stage("awaiting_consent")

SaidYes == last.text # None /\ lower(last.text) \in {<<"s", "i", "m">>, <<"s">>}

SaidNo ==
    last.text # None
    /\ lower(last.text) \in {<<"n", "ã", "o">>, <<"n", "a", "o">>, <<"n">>}

\* The session holds a field it did not hold before the answer.
ConsentStored == DOMAIN After.metadata # DOMAIN Before.metadata

\* C12 as stated: yes stores the consent and moves to AWAITING_NAME, no
\* stores the consent and moves to FINISHED, nothing else leaves the stage.
C12_ConsentStoredAndMoved ==
    ConsentAnswered =>
        CASE SaidYes -> After.stage = Stage("awaiting_name") /\ ConsentStored
          [] SaidNo -> After.stage = Stage("finished") /\ ConsentStored
          [] OTHER -> After.stage = Stage("awaiting_consent")

\* C12 amended: yes moves to AWAITING_NAME and no to FINISHED, and the
\* answer is kept in the stage alone: metadata and queue stay as they were;
\* nothing else leaves the stage.
C12_ConsentMovesStage ==
    ConsentAnswered =>
        /\ After.metadata = Before.metadata
        /\ After.tasks_queue = Before.tasks_queue
        /\ CASE SaidYes -> After.stage = Stage("awaiting_name")
             [] SaidNo -> After.stage = Stage("finished")
             [] OTHER -> After.stage = Stage("awaiting_consent")

\* consent declined in upper case
C12_Witness == ConsentAnswered /\ last.text = Nao /\ After.stage = Stage("finished")

C14_EveryMessageAnswered == last.op = "message" => Len(replies) >= 1

\* a message whose handler ended by an exception, answered by error_handler
C14_Witness ==
    /\ MessageHandled /\ last.raised
    /\ replies = <<"internal_error">>

\* the keys of audio_urls whose entry the message handled last wrote
RecordedKeys ==
    {k \in DOMAIN AudioUrls(After) :
        \/ k \notin DOMAIN AudioUrls(Before)
        \/ AudioUrls(After)[k] # AudioUrls(Before)[k]}

\* C15: a session in the stage of audio task t has current_audio_task = t; a
\* recording is filed in audio_urls only under the task of the stage in which it
\* was handled; audio_urls has no key outside the four tasks.
C15_StageNamesCurrentTask ==
    /\ \A c \in DOMAIN user_states :
          /\ IsAudioStage(user_states[c].stage) =>
                CurrentTask(user_states[c]) = <<user_states[c].stage[2]>>
          /\ DOMAIN AudioUrls(user_states[c])
                \subseteq {AUDIO_TASKS[i] : i \in 1..Len(AUDIO_TASKS)}
    /\ MessageHandled =>
          /\ RecordedKeys # {} => IsAudioStage(Before.stage)
          /\ \A k \in RecordedKeys : k = Before.stage[2]

\* the recording of vogal_i is filed under vogal_i while the stage moves on
C15_Witness ==
    /\ MessageHandled
    /\ Before.stage = AudioStage("vogal_i")
    /\ RecordedKeys = {"vogal_i"}
    /\ After.stage = AudioStage("vogal_o")
    /\ CurrentTask(After) = <<"vogal_o">>

\* the fixed order of the stages
StageOrder ==
    <<Stage("awaiting_consent"), Stage("awaiting_name"), Stage("awaiting_age"),
      Stage("awaiting_smoking_status"), Stage("awaiting_diagnosis"),
      Stage("awaiting_emotional_state"), Stage("awaiting_environment"),
      AudioStage("vogal_a"), AudioStage("vogal_i"), AudioStage("vogal_o"),
      AudioStage("contagem_1_10"), Stage("finished")>>

StageIndex(stage) == CHOOSE i \in 1..Len(StageOrder) : StageOrder[i] = stage

\* C16: a handled message leaves the stage where it is or moves it to the next
\* stage of the fixed order, or from the consent question to finished; on
\* entering an audio stage the prompt of that task is the last reply.
C16_StageMovesOneStepForward ==
    MessageHandled =>
        /\ Before.stage \in Stages /\ After.stage \in Stages
        /\ \/ After.stage = Before.stage
           \/ StageIndex(After.stage) = StageIndex(Before.stage) + 1
           \/ /\ Before.stage = Stage("awaiting_consent")
              /\ After.stage = Stage("finished")
        /\ (After.stage # Before.stage /\ IsAudioStage(After.stage)) =>
              /\ replies # <<>>
              /\ <<replies[Len(replies)]>> = TaskPrompt(After.stage[2])

\* the step from the third recording to the fourth
C16_Witness ==
    /\ MessageHandled
    /\ Before.stage = AudioStage("vogal_o")
    /\ After.stage = AudioStage("contagem_1_10")
    /\ replies[Len(replies)] = "prompt_contagem_1_10"

\* The message handled last came from a chat that had no session.
FirstContact == last.op = "message" /\ last.chat_id \notin DOMAIN pre

\* C17: the first message of an unseen chat, whatever it carries, only creates
\* the session: it is answered by the welcome text alone and leaves the session
\* in the consent stage with nothing recorded.
C17_FirstMessageOnlyCreates ==
    FirstContact =>
        /\ IsInitial(After)
        /\ replies = <<"welcome">>
        /\ ~last.raised

\* a first message that reads 'sim' is not taken as the consent answer
C17_Witness ==
    /\ FirstContact /\ SaidYes
    /\ After.stage = Stage("awaiting_consent")

\* The sessions of the chats other than the one of the update handled last.
Others(us) == [c \in DOMAIN us \ {last.chat_id} |-> us[c]]

\* C18: a handler run for one chat, whatever handlers of other chats are
\* running around it, leaves the session (stage, metadata, queue) of every
\* other chat as it was.
C18_OtherSessionsUntouched == last.op # "none" => Others(user_states) = Others(pre)

\* a recording of chat 7 was handled and its queue popped while a handler of
\* chat 8, called before, is still running; chat 8 holds a queue of its own
C18_Witness ==
    /\ MessageHandled /\ last.chat_id = 7 /\ last.voice
    /\ After.tasks_queue # Before.tasks_queue
    /\ running # <<>> /\ running[1].ev.chat_id = 8
    /\ running[1].seen # user_states
    /\ 8 \in DOMAIN user_states /\ user_states[8].tasks_queue # <<>>

----------------------------------------------------------------------------
(* An interview that is not reset.  The session exists; the user sends     *)
(* /start never again and 'reiniciar' never in the last stage; the storage *)
(* client is configured.  Whatever else is sent, a message the stage       *)
(* accepts, fetched and uploaded without failure, keeps being sent.        *)

\* texts the user sends in SpecLive
LiveTexts == {Sim, <<"5">>, ExFumante}

\* The stage of chat c accepts the update and its recording gets stored.
Succeeds(c, ev) ==
    /\ user_states[c].stage # Stage("finished")
    /\ Accepts(user_states[c].stage, ev.text, ev.voice)
    /\ ev.voice => ev.fetch_ok /\ ev.upload_ok

\* The update resets the session.
Resets(c, ev) ==
    \/ ev.op = "start"
    \/ user_states[c].stage = Stage("finished")
          /\ Accepts(user_states[c].stage, ev.text, ev.voice)

Deliver(ev) == Message(ev.chat_id, ev.text, ev.voice, ev.fetch_ok, ev.upload_ok)

AcceptedMessage(c) ==
    \E ev \in Updates(c, LiveTexts) :
        ev.op = "message" /\ Succeeds(c, ev) /\ Deliver(ev)

AnotherMessage(c) ==
    \E ev \in Updates(c, LiveTexts) :
        ev.op = "message" /\ ~Succeeds(c, ev) /\ ~Resets(c, ev) /\ Deliver(ev)

InitLive ==
    /\ s3_client = TRUE
    /\ user_states = AfterStart
    /\ replies = <<"welcome">>
    /\ last = Event("start", 7, None, FALSE, TRUE, TRUE)
    /\ pre = EmptyDict
    /\ dequeued = [c \in ChatIds |-> <<>>]
    /\ streak = [c \in ChatIds |-> 0]
    /\ running = <<>>

NextLive == \E c \in ChatIds : AcceptedMessage(c) \/ AnotherMessage(c)

SpecLive ==
    InitLive /\ [][NextLive]_vars /\ WF_vars(\E c \in ChatIds : AcceptedMessage(c))

IsFinished == \A c \in ChatIds : user_states[c].stage = Stage("finished")

\* C19: without a reset, and with accepted messages that keep coming, a
\* session in any stage reaches FINISHED; once there it stays there.
C19_ReachesFinishedAndStays ==
    /\ ~IsFinished ~> IsFinished
    /\ [](IsFinished => []IsFinished)

\* the last recording ended the interview, and a later message left it ended
C19_Witness ==
    /\ MessageHandled
    /\ Before.stage = Stage("finished") /\ After.stage = Stage("finished")
    /\ DOMAIN AudioUrls(After) = {"vogal_a", "vogal_i", "vogal_o", "contagem_1_10"}
    /\ replies = <<"already_complete">>

====
